---- MODULE Spec2Model ----
(***************************************************************************)
(* Model of Chapter1/Exercises/Calculator/calculator.cpp: the four         *)
(* arithmetic helpers and main(), one action per statement of main so that *)
(* the control flow of the switch (which has no break statements) is       *)
(* followed label by label.                                                *)
(*                                                                         *)
(* Operands are drawn from -MaxOperand..MaxOperand.  All sums, differences *)
(* and products of that range fit a 32-bit int, so no helper overflows in  *)
(* the model and int arithmetic coincides with integer arithmetic.         *)
(***************************************************************************)
EXTENDS Integers, Sequences, FiniteSets, TLC

\* Largest magnitude of an operand (and of an indeterminate int) explored.
MaxOperand == 7

Operands == (0 - MaxOperand)..MaxOperand

\* The four case labels of the switch.
Operators == {"+", "-", "*", "/"}

\* Characters `operation` may hold: the four operators and two others.
Chars == Operators \cup {"%", "x"}

\* The text of the diagnostic.
Diag == "Cannot divide by 0!"

VARIABLES
    pc,         \* position in main
    a,          \* int a
    b,          \* int b
    operation,  \* char operation
    result,     \* int result
    failbit,    \* std::cin is in a failed state
    out,        \* lines written to std::cout
    exit,       \* <<>> while running, <<status>> once main has returned
    reads,      \* history: extractions executed, in order
    calls,      \* history: helper functions invoked, in order
    assigns     \* history: number of assignments to result

vars == <<pc, a, b, operation, result, failbit, out, exit, reads, calls, assigns>>

----------------------------------------------------------------------------
(* The helpers.                                                            *)

Abs(x) == IF x < 0 THEN 0 - x ELSE x

add(x, y) == x + y

subtract(x, y) == x - y

multiply(x, y) == x * y

\* Variant of divide that rounds the quotient down instead of toward zero.
divide_floor(x, y) ==
    IF y > 0 THEN x \div y ELSE (0 - x) \div (0 - y)

\* C++ int division: the quotient with the fractional part discarded.
divide(x, y) ==
    IF (x < 0) = (y < 0)
    THEN Abs(x) \div Abs(y)
    ELSE 0 - (Abs(x) \div Abs(y))

----------------------------------------------------------------------------
(* operator<<(int): decimal text of an int.                                *)

Digit(d) ==
    CASE d = 0 -> "0" [] d = 1 -> "1" [] d = 2 -> "2" [] d = 3 -> "3"
      [] d = 4 -> "4" [] d = 5 -> "5" [] d = 6 -> "6" [] d = 7 -> "7"
      [] d = 8 -> "8" [] d = 9 -> "9"

RECURSIVE NatToStr(_)
NatToStr(n) ==
    IF n < 10 THEN Digit(n) ELSE NatToStr(n \div 10) \o Digit(n % 10)

IntToStr(n) == IF n < 0 THEN "-" \o NatToStr(0 - n) ELSE NatToStr(n)

----------------------------------------------------------------------------
(* main                                                                    *)

\* a, b, operation and result are declared without an initializer: each
\* holds an indeterminate value until it is assigned.
Init ==
    /\ pc = "readA"
    /\ a \in Operands
    /\ b \in Operands
    /\ operation \in Chars
    /\ result \in Operands
    /\ failbit = FALSE
    /\ out = <<>>
    /\ exit = <<>>
    /\ reads = <<>>
    /\ calls = <<>>
    /\ assigns = 0

\* Variant of ReadA that jumps over the extraction of b.
ReadA_SkipB ==
    /\ pc = "readA"
    /\ \E v \in Operands, ok \in BOOLEAN :
          /\ a' = v
          /\ failbit' = ~ok
    /\ reads' = Append(reads, "a")
    /\ pc' = "readOp"
    /\ UNCHANGED <<b, operation, result, out, exit, calls, assigns>>

\* std::cin >> a.  The extraction either stores a value or fails and sets
\* failbit (the int it leaves behind is then not the user's operand).
ReadA ==
    /\ pc = "readA"
    /\ \E v \in Operands, ok \in BOOLEAN :
          /\ a' = v
          /\ failbit' = ~ok
    /\ reads' = Append(reads, "a")
    /\ pc' = "readB"
    /\ UNCHANGED <<b, operation, result, out, exit, calls, assigns>>

\* std::cin >> b.  On a failed stream the extraction does nothing.
ReadB ==
    /\ pc = "readB"
    /\ IF failbit
       THEN UNCHANGED <<b, failbit>>
       ELSE \E v \in Operands, ok \in BOOLEAN :
               /\ b' = v
               /\ failbit' = ~ok
    /\ reads' = Append(reads, "b")
    /\ pc' = "readOp"
    /\ UNCHANGED <<a, operation, result, out, exit, calls, assigns>>

\* std::cin >> operation.  A failed char extraction stores nothing.
ReadOp ==
    /\ pc = "readOp"
    /\ IF failbit
       THEN UNCHANGED <<operation, failbit>>
       ELSE \/ \E c \in Chars : operation' = c /\ failbit' = FALSE
            \/ operation' = operation /\ failbit' = TRUE
    /\ reads' = Append(reads, "operation")
    /\ pc' = "switch"
    /\ UNCHANGED <<a, b, result, out, exit, calls, assigns>>

\* Variant of Switch with a default label placed on the '/' case.
Switch_Default ==
    /\ pc = "switch"
    /\ pc' = CASE operation = "+" -> "case_add"
               [] operation = "-" -> "case_sub"
               [] operation = "*" -> "case_mul"
               [] OTHER -> "case_div"
    /\ UNCHANGED <<a, b, operation, result, failbit, out, exit, reads, calls, assigns>>

\* switch(operation): jump to the matching label, or past the switch.
Switch ==
    /\ pc = "switch"
    /\ pc' = CASE operation = "+" -> "case_add"
               [] operation = "-" -> "case_sub"
               [] operation = "*" -> "case_mul"
               [] operation = "/" -> "case_div"
               [] OTHER -> "print"
    /\ UNCHANGED <<a, b, operation, result, failbit, out, exit, reads, calls, assigns>>

\* Variant of CaseAdd that ends with a break.
CaseAdd_Break ==
    /\ pc = "case_add"
    /\ result' = add(a, b)
    /\ calls' = Append(calls, "add")
    /\ assigns' = assigns + 1
    /\ pc' = "print"
    /\ UNCHANGED <<a, b, operation, failbit, out, exit, reads>>

\* case '+': result = add(a,b); no break, control continues at case '-'.
CaseAdd ==
    /\ pc = "case_add"
    /\ result' = add(a, b)
    /\ calls' = Append(calls, "add")
    /\ assigns' = assigns + 1
    /\ pc' = "case_sub"
    /\ UNCHANGED <<a, b, operation, failbit, out, exit, reads>>

\* case '-': result = subtract(a,b); no break, control continues at case '*'.
CaseSub ==
    /\ pc = "case_sub"
    /\ result' = subtract(a, b)
    /\ calls' = Append(calls, "subtract")
    /\ assigns' = assigns + 1
    /\ pc' = "case_mul"
    /\ UNCHANGED <<a, b, operation, failbit, out, exit, reads>>

\* case '*': result = multiply(a,b); no break, control continues at case '/'.
CaseMul ==
    /\ pc = "case_mul"
    /\ result' = multiply(a, b)
    /\ calls' = Append(calls, "multiply")
    /\ assigns' = assigns + 1
    /\ pc' = "case_div"
    /\ UNCHANGED <<a, b, operation, failbit, out, exit, reads>>

\* Variant of CaseDiv without the b == 0 test.
CaseDiv_NoCheck ==
    /\ pc = "case_div"
    /\ result' = multiply(a, b)
    /\ calls' = Append(calls, "multiply")
    /\ assigns' = assigns + 1
    /\ pc' = "print"
    /\ UNCHANGED <<a, b, operation, failbit, out, exit, reads>>

\* Variant of CaseDiv whose b == 0 branch prints but does not return.
CaseDiv_NoReturn ==
    /\ pc = "case_div"
    /\ IF b = 0
       THEN /\ out' = Append(out, Diag)
            /\ pc' = "print"
            /\ UNCHANGED <<result, calls, assigns, exit>>
       ELSE /\ result' = multiply(a, b)
            /\ calls' = Append(calls, "multiply")
            /\ assigns' = assigns + 1
            /\ pc' = "print"
            /\ UNCHANGED <<out, exit>>
    /\ UNCHANGED <<a, b, operation, failbit, reads>>

\* case '/': if b == 0 print the diagnostic and return -1, else
\* result = multiply(a,b) and control leaves the switch.
CaseDiv ==
    /\ pc = "case_div"
    /\ IF b = 0
       THEN /\ out' = Append(out, Diag)
            /\ exit' = <<-1>>
            /\ pc' = "done"
            /\ UNCHANGED <<result, calls, assigns>>
       ELSE /\ result' = multiply(a, b)
            /\ calls' = Append(calls, "multiply")
            /\ assigns' = assigns + 1
            /\ pc' = "print"
            /\ UNCHANGED <<out, exit>>
    /\ UNCHANGED <<a, b, operation, failbit, reads>>

\* std::cout << result << std::endl; return 0;
PrintResult ==
    /\ pc = "print"
    /\ out' = Append(out, IntToStr(result))
    /\ exit' = <<0>>
    /\ pc' = "done"
    /\ UNCHANGED <<a, b, operation, result, failbit, reads, calls, assigns>>

Next ==
    \/ ReadA
    \/ ReadB
    \/ ReadOp
    \/ Switch
    \/ CaseAdd
    \/ CaseSub
    \/ CaseMul
    \/ CaseDiv
    \/ PrintResult

Spec == Init /\ [][Next]_vars

\* main runs to completion: no step of it waits on anything but input,
\* which the model supplies at every read.
LiveSpec == Init /\ [][Next]_vars /\ WF_vars(Next)

----------------------------------------------------------------------------
(* The helpers on their own: each is called once on operands of the range. *)

HInit ==
    /\ pc = "call"
    /\ a \in Operands
    /\ b \in Operands
    /\ operation \in Operators
    /\ result \in Operands
    /\ failbit = FALSE
    /\ out = <<>>
    /\ exit = <<>>
    /\ reads = <<>>
    /\ calls = <<>>
    /\ assigns = 0

CallAdd ==
    /\ pc = "call"
    /\ operation = "+"
    /\ result' = add(a, b)
    /\ calls' = Append(calls, "add")
    /\ pc' = "returned"
    /\ UNCHANGED <<a, b, operation, failbit, out, exit, reads, assigns>>

CallSubtract ==
    /\ pc = "call"
    /\ operation = "-"
    /\ result' = subtract(a, b)
    /\ calls' = Append(calls, "subtract")
    /\ pc' = "returned"
    /\ UNCHANGED <<a, b, operation, failbit, out, exit, reads, assigns>>

CallMultiply ==
    /\ pc = "call"
    /\ operation = "*"
    /\ result' = multiply(a, b)
    /\ calls' = Append(calls, "multiply")
    /\ pc' = "returned"
    /\ UNCHANGED <<a, b, operation, failbit, out, exit, reads, assigns>>

\* a/b with b == 0 has no defined result; divide is called with b # 0 only.
CallDivide ==
    /\ pc = "call"
    /\ operation = "/"
    /\ b # 0
    /\ result' = divide(a, b)
    /\ calls' = Append(calls, "divide")
    /\ pc' = "returned"
    /\ UNCHANGED <<a, b, operation, failbit, out, exit, reads, assigns>>

HNext ==
    \/ CallAdd
    \/ CallSubtract
    \/ CallMultiply
    \/ CallDivide

HelperSpec == HInit /\ [][HNext]_vars

----------------------------------------------------------------------------
(* Reference arithmetic, defined independently of the helpers.             *)

\* x*y by repeated addition.
RECURSIVE RefMul(_, _)
RefMul(x, y) ==
    IF y = 0 THEN 0
    ELSE IF y > 0 THEN RefMul(x, y - 1) + x
    ELSE RefMul(x, y + 1) - x

\* q is x/y truncated toward zero: the remainder x - q*y is smaller in
\* magnitude than y and is zero or has the sign of x.
IsTruncQuotient(q, x, y) ==
    LET r == x - RefMul(q, y)
    IN  /\ Abs(r) < Abs(y)
        /\ r = 0 \/ ((r < 0) = (x < 0))

\* The value the contract assigns to `x op y`.
Expected(op, x, y) ==
    CASE op = "+" -> x + y
      [] op = "-" -> x - y
      [] op = "*" -> RefMul(x, y)
      [] op = "/" -> CHOOSE q \in (0 - Abs(x))..Abs(x) : IsTruncQuotient(q, x, y)

\* The helper the contract pairs with each operator.
HelperOf(op) ==
    CASE op = "+" -> "add"
      [] op = "-" -> "subtract"
      [] op = "*" -> "multiply"
      [] op = "/" -> "divide"

\* The helpers main calls when control enters the switch at op's label and
\* runs to the end of the switch.
FallThrough(op) ==
    CASE op = "+" -> <<"add", "subtract", "multiply", "multiply">>
      [] op = "-" -> <<"subtract", "multiply", "multiply">>
      [] op = "*" -> <<"multiply", "multiply">>
      [] op = "/" -> <<"multiply">>

Terminated == pc = "done"

----------------------------------------------------------------------------
(* Claims                                                                  *)

\* C1: whatever a is, a run with b = 0 and operator '/' writes the line
\* "Cannot divide by 0!", writes no result line, and returns a non-zero
\* status.
C1_DivideByZeroDiagnosed ==
    (Terminated /\ operation = "/" /\ b = 0) =>
        /\ out = <<Diag>>
        /\ Len(exit) = 1
        /\ exit[1] # 0

C1_Witness ==
    /\ Terminated
    /\ operation = "/" /\ b = 0 /\ a = 6
    /\ ~failbit
    /\ out = <<Diag>>

\* C2 (as claimed): for b # 0 and each of the four operators, main prints
\* exactly the value of a op b and returns 0.
C2_PrintsAOpB ==
    (Terminated /\ operation \in Operators /\ b # 0) =>
        /\ out = <<IntToStr(Expected(operation, a, b))>>
        /\ exit = <<0>>

\* C3 (as claimed): the diagnostic and the non-zero status occur only for
\* operator '/' with b = 0; a run with '+', '-' or '*' prints a result line
\* and returns 0 for every a and b, b = 0 included.
C3_DiagnosticOnlyForDivide ==
    /\ (Terminated /\ (out = <<Diag>> \/ exit # <<0>>)) =>
           (operation = "/" /\ b = 0)
    /\ (Terminated /\ operation \in {"+", "-", "*"}) =>
           (out = <<IntToStr(result)>> /\ exit = <<0>>)

\* C4 (as claimed): for operator '*' and all a and b, b = 0 included, main
\* prints a*b and returns 0.
C4_MultiplyPrintsProduct ==
    (Terminated /\ operation = "*") =>
        /\ out = <<IntToStr(RefMul(a, b))>>
        /\ exit = <<0>>

\* C5: each helper returns the reference value: add the sum, subtract the
\* difference, multiply the product, and divide (for b # 0) the quotient
\* truncated toward zero, so divide(-7,2) = -3 and divide(7,-2) = -3.
C5_HelpersMatchReference ==
    (pc = "returned") =>
        /\ Len(calls) = 1
        /\ calls[1] = "add" => result - b = a
        /\ calls[1] = "subtract" => result + b = a
        /\ calls[1] = "multiply" => result = RefMul(a, b)
        /\ calls[1] = "divide" =>
              /\ b # 0
              /\ IsTruncQuotient(result, a, b)
              /\ (a = -7 /\ b = 2) => result = -3
              /\ (a = 7 /\ b = -2) => result = -3

C5_Witness ==
    /\ pc = "returned"
    /\ calls = <<"divide">>
    /\ a = -7 /\ b = 2
    /\ result = -3

\* C6 (as claimed): in a run whose operator is one of the four (other than
\* '/' with b = 0) main invokes exactly one helper, the one of the
\* operator, and prints that invocation's return value.
C6_DispatchExclusive ==
    (Terminated /\ operation \in Operators /\ ~(operation = "/" /\ b = 0)) =>
        /\ calls = <<HelperOf(operation)>>
        /\ out = <<IntToStr(Expected(operation, a, b))>>

\* C7: main never invokes divide, and for each of the four operators with
\* b # 0 control falls through every later case, the last assignment to
\* result is multiply(a,b) and the line printed is a*b.
C7_FallThroughPrintsProduct ==
    /\ \A i \in 1..Len(calls) : calls[i] # "divide"
    /\ (Terminated /\ operation \in Operators /\ b # 0) =>
           /\ calls = FallThrough(operation)
           /\ assigns = Len(calls)
           /\ result = RefMul(a, b)
           /\ out = <<IntToStr(RefMul(a, b))>>
           /\ exit = <<0>>

C7_Witness ==
    /\ Terminated
    /\ operation = "+" /\ a = 6 /\ b = 3
    /\ calls = <<"add", "subtract", "multiply", "multiply">>
    /\ out = <<"18">>

\* C8: when the operator is none of '+', '-', '*', '/', for every a and b
\* main calls no helper, never assigns result, prints no diagnostic, prints
\* one line holding the value result happens to have, and returns 0.
C8_UnknownOperatorPrintsUnassigned ==
    (Terminated /\ operation \notin Operators) =>
        /\ calls = <<>>
        /\ assigns = 0
        /\ out = <<IntToStr(result)>>
        /\ out # <<Diag>>
        /\ exit = <<0>>

C8_Witness ==
    /\ Terminated
    /\ operation = "%" /\ b = 0
    /\ assigns = 0
    /\ calls = <<>>
    /\ out = <<IntToStr(result)>>

\* C9: a run writes exactly one line, a result line or the diagnostic;
\* nothing is written before main returns from one of its two exits, the
\* status is 0 exactly when the line is a result line and -1 exactly when
\* it is the diagnostic.
C9_OneLineAndStatus ==
    /\ ~Terminated => (out = <<>> /\ exit = <<>>)
    /\ Terminated =>
           /\ Len(out) = 1
           /\ Len(exit) = 1
           /\ exit[1] \in {0, -1}
           /\ out[1] = Diag \/ out[1] = IntToStr(result)
           /\ exit[1] = 0 <=> out[1] = IntToStr(result)
           /\ exit[1] = -1 <=> out[1] = Diag

C9_Witness ==
    /\ Terminated
    /\ operation = "+" /\ b = 0
    /\ out = <<Diag>>
    /\ exit = <<-1>>

\* C10: main executes exactly three extractions, into a, then b, then
\* operation; all three precede every helper call and every output; no
\* extraction follows them; and every run terminates.
ReadOrder == <<"a", "b", "operation">>

C10_Safety ==
    /\ Len(reads) <= 3
    /\ reads = SubSeq(ReadOrder, 1, Len(reads))
    /\ (calls # <<>> \/ out # <<>> \/ assigns # 0) => reads = ReadOrder
    /\ pc \notin {"readA", "readB", "readOp"} => reads = ReadOrder

C10_ReadsThenTerminates ==
    /\ []C10_Safety
    /\ [][Terminated => (Terminated' /\ reads' = reads)]_vars
    /\ <>Terminated

C10_Witness ==
    /\ Terminated
    /\ reads = <<"a", "b", "operation">>
    /\ ~failbit
    /\ operation = "-" /\ b = 3

====
